---- MODULE Spec2Model ----
(***************************************************************************)
(* The streaming relay of src/api/v1/chat.py: stream_response_wrapper      *)
(* opens the upstream request, stream_response reads its lines, forwards   *)
(* them to the client and folds them into the Chat row, and                *)
(* handle_streaming_error records a failure note on the row.               *)
(*                                                                         *)
(* Text (str) is a sequence of tokens: "a", "b", "T", "U" are characters   *)
(* of upstream text, "NL" is a newline, and the remaining tokens are the   *)
(* fixed pieces of the messages the code builds.                           *)
(***************************************************************************)
EXTENDS Integers, Sequences, FiniteSets, TLC

\* Bounds of the model.
MaxLines == 3
MaxDbFaults == 1
MaxRuns == 2

(***************************************************************************)
(* str helpers                                                             *)
(***************************************************************************)
\* base_response.endswith(("\n", "\n\n"))
EndsWithNewline(s) == Len(s) > 0 /\ s[Len(s)] = "NL"

\* m in s
IsSubstring(m, s) ==
    \E i \in 0..(Len(s) - Len(m)) : \A j \in 1..Len(m) : s[i + j] = m[j]

\* the number of places where m occurs in s
Occurrences(m, s) ==
    Cardinality({i \in 0..(Len(s) - Len(m)) : \A j \in 1..Len(m) : s[i + j] = m[j]})

(***************************************************************************)
(* The Chat row (src/models/chat.py) and the values of its JSON columns.   *)
(* A current_params dict has one ordinary key k and the has_more key; "-"  *)
(* is an absent key.                                                       *)
(***************************************************************************)
EmptyParams == [k |-> "-", has_more |-> "-"]

\* bool(current_params): an empty dict is falsy
Truthy(params) == params # EmptyParams

Fields == {"phones", "current_params", "button_text", "why_this_phone", "has_more"}

\* The row create_chat and continue_chat commit before the relay starts.
NewChat ==
    [exists |-> TRUE, response |-> <<>>, phones |-> "[]",
     current_params |-> EmptyParams, button_text |-> "See more",
     why_this_phone |-> "[]", has_more |-> "false"]

\* The row after delete_session removed it (every column is gone).
DeletedChat ==
    [exists |-> FALSE, response |-> <<>>, phones |-> "[]",
     current_params |-> EmptyParams, button_text |-> "See more",
     why_this_phone |-> "[]", has_more |-> "false"]

(***************************************************************************)
(* Upstream lines.  A line is its raw text: head is what it starts with,   *)
(* sp the number of blanks after "data:", body the text after them.  A     *)
(* body is JSON text: fmt is its formatting (json.dumps writes "spaced"),  *)
(* val the value json.loads gives for it (shape "invalid": no JSON).       *)
(***************************************************************************)
NoMeta ==
    [shape |-> "absent", has |-> {}, extra |-> FALSE, phones |-> "-",
     current_params |-> EmptyParams, button_text |-> "-",
     why_this_phone |-> "-", has_more |-> "-"]

\* {"phones": .., "current_params": .., ...}: has is the set of keys present
Meta(has, phones, params, button, why, more, extra) ==
    [shape |-> "object", has |-> has, extra |-> extra, phones |-> phones,
     current_params |-> params, button_text |-> button,
     why_this_phone |-> why, has_more |-> more]

\* a metadata value that is a JSON number
MetaNumber == [NoMeta EXCEPT !.shape = "number"]

\* a metadata value that is the empty object
MetaEmpty == [NoMeta EXCEPT !.shape = "object"]

NoVal == [shape |-> "none", type |-> "-", textKind |-> "absent", text |-> <<>>, md |-> NoMeta]
NoBody == [fmt |-> "none", val |-> NoVal]

Obj(type, textKind, text, md) ==
    [shape |-> "object", type |-> type, textKind |-> textKind, text |-> text, md |-> md]

DataLine(sp, fmt, val) == [head |-> "data:", sp |-> sp, body |-> [fmt |-> fmt, val |-> val]]
OtherLine(head) == [head |-> head, sp |-> 0, body |-> NoBody]

ContentLine(sp, fmt, chunk) == DataLine(sp, fmt, Obj("content", "str", chunk, NoMeta))
DoneLine(text) == DataLine(1, "spaced", Obj("done", IF text = <<>> THEN "absent" ELSE "str", text, NoMeta))
MetaLine(md) == DataLine(1, "spaced", Obj("metadata", "absent", <<>>, md))

\* {"type": "content", "content": ""} and {"type": "content", "content": 7}
EmptyChunkLine == DataLine(1, "spaced", Obj("content", "str", <<>>, NoMeta))
NonStrChunkLine == DataLine(1, "spaced", Obj("content", "nonstr", <<>>, NoMeta))
\* {"type": "error", "content": ".."} sent by upstream, and {"x": 1}
UpstreamErrorLine == DataLine(1, "spaced", Obj("error", "str", <<"a">>, NoMeta))
NoTypeLine == DataLine(1, "spaced", Obj("-", "absent", <<>>, NoMeta))
\* [1, 2] and 7: JSON that is no object
ArrayLine == DataLine(1, "spaced", [NoVal EXCEPT !.shape = "array"])
NumberLine == DataLine(1, "compact", [NoVal EXCEPT !.shape = "number"])
\* data: {oops
MalformedLine == DataLine(1, "spaced", [NoVal EXCEPT !.shape = "invalid"])
\* "data:" and "data: "
EmptyDataLine == [head |-> "data:", sp |-> 0, body |-> NoBody]
BlankDataLine == [head |-> "data:", sp |-> 1, body |-> NoBody]
CommentLine == OtherLine(":")
FieldLine == OtherLine("field")
BlankLine == OtherLine("")

NoLine == OtherLine("none")

\* The metadata objects the upstream sends: the result fields, the paging
\* fields, and values of other shapes (an unknown key only, {}, a number).
MetaEvents ==
    { Meta({"phones"}, "A", EmptyParams, "-", "-", "-", FALSE),
      Meta({"phones", "why_this_phone"}, "B", EmptyParams, "-", "W", "-", FALSE),
      Meta({"button_text"}, "-", EmptyParams, "More", "-", "-", TRUE),
      Meta({"current_params"}, "-", [k |-> "p1", has_more |-> "-"], "-", "-", "-", FALSE),
      Meta({"has_more"}, "-", EmptyParams, "-", "-", "true", FALSE) }

ParamEvents ==
    { Meta({"current_params"}, "-", [k |-> "p1", has_more |-> "-"], "-", "-", "-", FALSE),
      Meta({"current_params", "has_more"}, "-", [k |-> "p2", has_more |-> "-"], "-", "-", "true", FALSE),
      Meta({"has_more"}, "-", EmptyParams, "-", "-", "true", FALSE),
      Meta({"has_more"}, "-", EmptyParams, "-", "-", "false", FALSE) }

OddMetaEvents ==
    { Meta({}, "-", EmptyParams, "-", "-", "-", TRUE), MetaEmpty, MetaNumber }

\* What the upstream may send, by the kind of stream it is producing.
Profiles == {"text", "shapes", "meta", "params", "oddmeta", "frames"}

Alphabet(p) ==
    CASE p = "text" ->
            { ContentLine(1, "spaced", <<"a">>), ContentLine(0, "compact", <<"b">>),
              DoneLine(<<"T">>), DoneLine(<<"U">>), DoneLine(<<>>), MalformedLine,
              ArrayLine }
      [] p = "shapes" ->
            { ContentLine(1, "spaced", <<"a">>), EmptyChunkLine, NonStrChunkLine,
              ArrayLine, NumberLine, UpstreamErrorLine, NoTypeLine }
      [] p = "meta" ->
            {MetaLine(md) : md \in MetaEvents}
      [] p = "params" ->
            {MetaLine(md) : md \in ParamEvents}
      [] p = "oddmeta" ->
            {MetaLine(md) : md \in OddMetaEvents} \cup
            { MetaLine(Meta({"phones"}, "A", EmptyParams, "-", "-", "-", FALSE)),
              ContentLine(1, "spaced", <<"a">>) }
      [] OTHER ->
            { ContentLine(1, "compact", <<"a">>), MalformedLine, EmptyDataLine,
              BlankDataLine, CommentLine, FieldLine, BlankLine }

(***************************************************************************)
(* Exceptions: cls is the class, msg is str(e).                            *)
(***************************************************************************)
Exc(cls, msg) == [cls |-> cls, msg |-> msg]

\* Raised by client.stream(...) before a response exists (httpx.RequestError),
\* or something that is no httpx error at all.
ConnectErrors ==
    { Exc("ConnectTimeout", <<>>), Exc("ReadTimeout", <<>>),
      Exc("ConnectError", <<"connection refused">>) }
UnexpectedErrors == { Exc("TypeError", <<"not serializable">>) }
\* Raised by response.raise_for_status().
StatusErrors == { Exc("HTTPStatusError", <<"503 for url">>) }
\* How the except block reads the error body (the three branches of its try).
StatusDetails == { <<" - json">>, <<" - text">>, <<" - Could not parse error details">> }
\* Raised by response.aiter_lines() while the body is read.
ReadErrors == { Exc("ReadTimeout", <<>>), Exc("ReadError", <<>>) }
\* Raised by the Session when a query or commit fails.
DbError == Exc("OperationalError", <<"db">>)

IsTimeout(e) == e.cls \in {"ConnectTimeout", "ReadTimeout"}
NoExc == Exc("none", <<>>)

(***************************************************************************)
(* The Session.  A database operation (the query and the commit that       *)
(* follows it) succeeds, fails once, or fails and leaves the Session       *)
(* unusable (a failed flush without rollback()): the code never rolls      *)
(* back, so every later operation of a broken Session fails too.           *)
(***************************************************************************)
DbOutcomes(state, budget) ==
    IF state = "broken" THEN {"broken"}
    ELSE {"ok"} \cup (IF budget > 0 THEN {"fail", "break"} ELSE {})

DbOk(o) == o = "ok"
DbAfter(o) == IF o \in {"break", "broken"} THEN "broken" ELSE "ok"
DbBudgetAfter(o, budget) == IF o \in {"fail", "break"} THEN budget - 1 ELSE budget

(***************************************************************************)
(* handle_streaming_error                                                  *)
(***************************************************************************)
ErrorMessage(msg) == <<"Error occurred during streaming: ">> \o msg

\* A mutation: the note is appended without looking for it in the text.
HandleStreamingErrorNoDedup(c, msg, ok) ==
    IF ~ok \/ ~c.exists THEN c
    ELSE LET base == IF c.response # <<>> /\ ~EndsWithNewline(c.response)
                     THEN c.response \o <<"NL", "NL">> ELSE c.response
         IN [c EXCEPT !.response = base \o ErrorMessage(msg)]

\* A mutation: the note is built but never written.
HandleStreamingErrorNoWrite(c, msg, ok) == c

\* The row after handle_streaming_error(db, chat_id, error); ok: the query and
\* the commit did not raise (when they do, the except clause swallows it).
HandleStreamingError(c, msg, ok) ==
    IF ~ok \/ ~c.exists THEN c
    ELSE LET base == IF c.response # <<>> /\ ~EndsWithNewline(c.response)
                     THEN c.response \o <<"NL", "NL">> ELSE c.response
             error_message == ErrorMessage(msg)
         IN IF ~IsSubstring(error_message, base)
            THEN [c EXCEPT !.response = base \o error_message]
            ELSE c

\* The record of one call, kept in the history variable calls.
Call(c, msg, ok) ==
    [msg |-> msg, reached |-> ok /\ c.exists, before |-> c.response,
     after |-> HandleStreamingError(c, msg, ok).response]

(***************************************************************************)
(* stream_response: the pure parts                                         *)
(***************************************************************************)
\* line.startswith("data:")
StartsWithData(line) == line.head = "data:"
\* json_payload_str = line[len("data:"):].strip()
PayloadStr(line) == line.body
\* json.loads(json_payload_str): ok is FALSE for json.JSONDecodeError
Loads(body) == [ok |-> body.val.shape # "invalid", val |-> body.val]
\* "data: " + json.dumps(value)
Dumps(val) == [head |-> "data:", sp |-> 1, body |-> [fmt |-> "spaced", val |-> val]]

\* A frame handed to the client: text plus term newlines.  idx is the number
\* of upstream lines read when it was yielded.
LineFrame(line, term, idx) ==
    [src |-> "up", line |-> line, content |-> <<>>, quote |-> NoBody,
     term |-> term, idx |-> idx]
\* data: {"type": "error", "content": content} followed by a blank line
ErrorFrame(content, quote, idx) ==
    [src |-> "err", line |-> NoLine, content |-> content, quote |-> quote,
     term |-> 2, idx |-> idx]

\* A mutation: the frame is rebuilt from the parsed payload.
ForwardReserialized(line) == Dumps(Loads(PayloadStr(line)).val)

\* The text yielded for a data line whose payload parsed: f"{line}"
ForwardData(line) == line


\* bool(metadata_content)
MetaTruthy(md) ==
    CASE md.shape = "object" -> md.has # {} \/ md.extra
      [] md.shape = "number" -> TRUE
      [] OTHER -> FALSE

\* A mutation: why_this_phone is stored in the phones column.
ApplyMetadataWrongColumn(c, md) ==
    LET c1 == IF "phones" \in md.has THEN [c EXCEPT !.phones = md.phones] ELSE c
    IN IF "why_this_phone" \in md.has
       THEN [c1 EXCEPT !.phones = md.why_this_phone] ELSE c1

\* A mutation: a metadata object with keys of its own is kept as the
\* current_params of the row.
ApplyMetadataStoresExtra(c, md) ==
    LET c1 == IF "phones" \in md.has THEN [c EXCEPT !.phones = md.phones] ELSE c
        c2 == IF "current_params" \in md.has
              THEN [c1 EXCEPT !.current_params = md.current_params]
              ELSE IF md.extra THEN [c1 EXCEPT !.current_params.k = "extra"] ELSE c1
        c3 == IF "button_text" \in md.has
              THEN [c2 EXCEPT !.button_text = md.button_text] ELSE c2
        c4 == IF "why_this_phone" \in md.has
              THEN [c3 EXCEPT !.why_this_phone = md.why_this_phone] ELSE c3
        assigned == "current_params" \in md.has \/ ~Truthy(c4.current_params)
    IN IF "has_more" \in md.has
       THEN [c4 EXCEPT !.has_more = md.has_more,
                       !.current_params =
                           IF assigned THEN [@ EXCEPT !.has_more = md.has_more] ELSE @]
       ELSE c4

\* The row after the metadata branch committed, for a metadata object md.
\* current_params is a plain JSON column (src/models/chat.py:14): the Session
\* writes it only when the attribute was assigned, and commit() expires the
\* loaded object, so current_params['has_more'] = v on a dict that was loaded
\* and not assigned in this event never reaches the row.
ApplyMetadata(c, md) ==
    LET c1 == IF "phones" \in md.has THEN [c EXCEPT !.phones = md.phones] ELSE c
        c2 == IF "current_params" \in md.has
              THEN [c1 EXCEPT !.current_params = md.current_params] ELSE c1
        c3 == IF "button_text" \in md.has
              THEN [c2 EXCEPT !.button_text = md.button_text] ELSE c2
        c4 == IF "why_this_phone" \in md.has
              THEN [c3 EXCEPT !.why_this_phone = md.why_this_phone] ELSE c3
        assigned == "current_params" \in md.has \/ ~Truthy(c4.current_params)
    IN IF "has_more" \in md.has
       THEN [c4 EXCEPT !.has_more = md.has_more,
                       !.current_params =
                           IF assigned THEN [@ EXCEPT !.has_more = md.has_more] ELSE @]
       ELSE c4

\* A mutation: a done event's full_text is never used.
AccumulateNoFallback(acc0, val) ==
    IF val.type = "content" /\ val.textKind = "str" /\ val.text # <<>>
    THEN acc0 \o val.text ELSE acc0

\* accumulated_text_for_db_response after a content or done event
Accumulate(acc0, val) ==
    CASE val.type = "content" ->
            IF val.textKind = "str" /\ val.text # <<>> THEN acc0 \o val.text ELSE acc0
      [] val.type = "done" ->
            IF val.textKind = "str" /\ val.text # <<>> /\ acc0 = <<>> THEN val.text ELSE acc0
      [] OTHER -> acc0

\* Does processing val query the Session?
UsesDb(val) == val.shape = "object" /\ val.type = "metadata" /\ MetaTruthy(val.md)

\* A mutation: each content chunk is also appended to the stored response.
ProcessPersistsChunks(val, acc0, c, ok) ==
    LET same == [acc |-> acc0, chat |-> c, exc |-> NoExc, wrote |-> FALSE]
    IN CASE val.shape # "object" ->
                [same EXCEPT !.exc = Exc("AttributeError",
                                         <<val.shape, " object has no attribute 'get'">>)]
         [] UsesDb(val) ->
                IF ~ok THEN [same EXCEPT !.exc = DbError]
                ELSE IF ~c.exists THEN same
                ELSE IF val.md.shape # "object"
                     THEN [same EXCEPT !.exc = Exc("TypeError",
                                         <<"argument of type 'int' is not iterable">>)]
                ELSE [same EXCEPT !.chat = ApplyMetadata(c, val.md), !.wrote = TRUE]
         [] OTHER ->
                [same EXCEPT !.acc = Accumulate(acc0, val),
                             !.chat = IF c.exists /\ val.type = "content"
                                      THEN [c EXCEPT !.response = @ \o val.text] ELSE c]

\* The body of the inner try after the yield: the new accumulator and row, the
\* exception it raises (NoExc: none), and whether a metadata write committed.
Process(val, acc0, c, ok) ==
    LET same == [acc |-> acc0, chat |-> c, exc |-> NoExc, wrote |-> FALSE]
    IN CASE val.shape # "object" ->
                [same EXCEPT !.exc = Exc("AttributeError",
                                         <<val.shape, " object has no attribute 'get'">>)]
         [] UsesDb(val) ->
                IF ~ok THEN [same EXCEPT !.exc = DbError]
                ELSE IF ~c.exists THEN same
                ELSE IF val.md.shape # "object"
                     THEN [same EXCEPT !.exc = Exc("TypeError",
                                         <<"argument of type 'int' is not iterable">>)]
                ELSE [same EXCEPT !.chat = ApplyMetadata(c, val.md), !.wrote = TRUE]
         [] OTHER -> [same EXCEPT !.acc = Accumulate(acc0, val)]


(***************************************************************************)
(* The except clauses: note is the text handed to handle_streaming_error,  *)
(* frames what is yielded after it, raises whether the exception goes on   *)
(* to the enclosing clauses.                                               *)
(***************************************************************************)
Handled(note, frames) == [note |-> note, frames |-> frames, raises |-> FALSE]

\* A mutation: the error frame of a malformed line is yielded twice.
OnJsonDecodeErrorTwice(line, idx) ==
    <<ErrorFrame(<<"Malformed data from upstream: ">>, PayloadStr(line), idx),
      ErrorFrame(<<"Malformed data from upstream: ">>, PayloadStr(line), idx)>>

\* except json.JSONDecodeError: one error frame quoting the payload
\* (json_payload_str[:100]; bodies here are shorter than that)
OnJsonDecodeError(line, idx) ==
    <<ErrorFrame(<<"Malformed data from upstream: ">>, PayloadStr(line), idx)>>

\* A mutation: there is no inner clause for exceptions other than
\* json.JSONDecodeError, so they pass to the clauses around the loop.
OnProcessErrorPropagates(e, idx) == [note |-> e.msg, frames |-> <<>>, raises |-> TRUE]

\* except Exception as e_process, inside the loop
OnProcessError(e, idx) ==
    Handled(e.msg, <<ErrorFrame(<<"Error processing upstream data: ">> \o e.msg, NoBody, idx)>>)

\* A mutation: the handlers of stream_response re-raise after their yield.
OnStreamErrorReraise(e, idx) ==
    [note |-> e.msg,
     frames |-> <<ErrorFrame(<<"Stream processing error: ">> \o e.msg, NoBody, idx)>>,
     raises |-> TRUE]

\* except httpx.ReadTimeout / except Exception as e_outer, around the loop
OnStreamError(e, idx) ==
    IF e.cls = "ReadTimeout"
    THEN LET err == <<"Timeout receiving data from the recommendation service: ">> \o e.msg
         IN Handled(err, <<ErrorFrame(err, NoBody, idx)>>)
    ELSE Handled(e.msg, <<ErrorFrame(<<"Stream processing error: ">> \o e.msg, NoBody, idx)>>)

RequestErrorClasses == {"ConnectTimeout", "ReadTimeout", "ConnectError", "ReadError"}

\* A mutation: the status and the error body are sent as two error frames.
OnWrapperErrorDetailFrame(e, detail, idx) ==
    Handled(e.msg, <<ErrorFrame(<<"External service error: 503">>, NoBody, idx),
                     ErrorFrame(<<"External service error: 503">> \o detail, NoBody, idx)>>)

\* The three except clauses of stream_response_wrapper.
OnWrapperError(e, detail, idx) ==
    CASE e.cls = "HTTPStatusError" ->
            Handled(e.msg, <<ErrorFrame(<<"External service error: 503">> \o detail, NoBody, idx)>>)
      [] e.cls \in RequestErrorClasses ->
            Handled(e.msg, <<ErrorFrame(<<"Error connecting to external service: ">> \o e.msg,
                                        NoBody, idx)>>)
      [] OTHER ->
            Handled(e.msg, <<ErrorFrame(<<"An unexpected error occurred: ">> \o e.msg,
                                        NoBody, idx)>>)

(***************************************************************************)
(* The chats table as the request handlers see it: the chats of one user,  *)
(* whose requests are followed (every query of get_more_phones filters on  *)
(* Chat.user_id == current_user.id, so other users' requests leave these   *)
(* rows alone).  A row keeps the fields that more than one handler writes; *)
(* writers is history: who wrote the row after it was created.             *)
(***************************************************************************)
\* The requests to create_chat / continue_chat, numbered as they arrive.
Runs == 1..MaxRuns
\* Every request draws one identifier, so this many exist at most.
Ids == 1..MaxRuns

NoRow == [exists |-> FALSE, response |-> "", current_params |-> "{}",
          has_more |-> FALSE, writers |-> {}]
\* Chat(id=chat_id, ..., response="", current_params={}, has_more=False, ...)
NewRow == [exists |-> TRUE, response |-> "", current_params |-> "{}",
           has_more |-> FALSE, writers |-> {}]

NoRun == [handler |-> "-", pc |-> "none", id |-> 0, forwarded |-> FALSE]

\* Who writes a row: the relay run of request r, or get_more_phones.
RunWriter(r) == <<"run", r>>
MoreWriter == <<"get_more_phones", 0>>

(***************************************************************************)
(* State                                                                   *)
(***************************************************************************)
VARIABLES
    profile,    \* the kind of stream the upstream produces
    pc,         \* where the run is: idle, read, line, apply, commit, done
    conn,       \* the upstream connection: none, open, closed
    received,   \* the lines aiter_lines() has returned
    forwarded,  \* the frames yielded to the client
    acc,        \* accumulated_text_for_db_response
    chat,       \* the Chat row of chat_id
    db,         \* the Session: ok or broken
    dbFaults,   \* how many more database operations may start failing
    failure,    \* the exception that ended the run (NoExc: none)
    calls,      \* history: the calls of handle_streaming_error
    applied,    \* history: the metadata objects whose write committed
    committed,  \* history: the texts written by the final commit
    client,     \* the downstream client: connected or gone
    table,      \* the chats table, by id (used where several requests are followed)
    runs,       \* the requests to create_chat / continue_chat and their relay runs
    issued      \* how many identifiers uuid4() has returned

\* The state of one relay run followed line by line, and the state of the
\* request handlers around the runs.
relayVars == <<profile, pc, conn, received, forwarded, acc, chat, db, dbFaults,
               failure, calls, applied, committed, client>>
handlerVars == <<table, runs, issued>>
vars == <<relayVars, handlerVars>>

Init ==
    /\ profile \in Profiles
    /\ pc = "idle"
    /\ conn = "none"
    /\ received = <<>>
    /\ forwarded = <<>>
    /\ acc = <<>>
    /\ chat = NewChat
    /\ db = "ok"
    /\ dbFaults = MaxDbFaults
    /\ failure = NoExc
    /\ calls = <<>>
    /\ applied = <<>>
    /\ committed = <<>>
    /\ client = "connected"
    /\ table = [id \in Ids |-> NoRow]
    /\ runs = [r \in Runs |-> NoRun]
    /\ issued = 0

\* handle_streaming_error(db, chat_id, <note>) under database outcome o
Record(note, o) ==
    /\ chat' = HandleStreamingError(chat, note, DbOk(o))
    /\ calls' = Append(calls, Call(chat, note, DbOk(o)))
    /\ db' = DbAfter(o)
    /\ dbFaults' = DbBudgetAfter(o, dbFaults)

\* A terminal failure caught by the wrapper: record, yield, leave both
\* "async with" blocks.
WrapperFails(e, detail) ==
    \E o \in DbOutcomes(db, dbFaults) :
        LET h == OnWrapperError(e, detail, Len(received))
        IN /\ Record(h.note, o)
           /\ forwarded' = forwarded \o h.frames
           /\ failure' = e
           /\ pc' = "done"
           /\ conn' = "closed"
           /\ UNCHANGED <<handlerVars, profile, client, received, acc, applied, committed>>

\* A mutation: after a failure the request is sent again.
ConnectRetries ==
    /\ pc = "idle" \/ (pc = "done" /\ failure # NoExc)
    /\ pc' = "read"
    /\ conn' = "open"
    /\ UNCHANGED <<handlerVars, profile, client, received, forwarded, acc, chat, db, dbFaults,
                   failure, calls, applied, committed>>

\* client.stream(...) returns a response and raise_for_status() passes.
Connect ==
    /\ pc = "idle"
    /\ pc' = "read"
    /\ conn' = "open"
    /\ UNCHANGED <<handlerVars, profile, client, received, forwarded, acc, chat, db, dbFaults,
                   failure, calls, applied, committed>>

\* client.stream(...) raises: no response.
ConnectFails ==
    /\ pc = "idle"
    /\ \E e \in ConnectErrors \cup UnexpectedErrors : WrapperFails(e, <<>>)

\* raise_for_status() raises for a non-2xx response.
StatusFails ==
    /\ pc = "idle"
    /\ \E e \in StatusErrors, detail \in StatusDetails : WrapperFails(e, detail)


(***************************************************************************)
(* stream_response                                                         *)
(***************************************************************************)
Current == received[Len(received)]

\* aiter_lines() returns the next line.
ReadLine ==
    /\ pc = "read"
    /\ Len(received) < MaxLines
    /\ \E line \in Alphabet(profile) : received' = Append(received, line)
    /\ pc' = "line"
    /\ UNCHANGED <<handlerVars, profile, client, conn, forwarded, acc, chat, db, dbFaults, failure,
                   calls, applied, committed>>

\* A mutation: every forwarded line gets the blank-line terminator.
DispatchDoubleNewline(line, idx) ==
    IF StartsWithData(line)
    THEN IF PayloadStr(line) = NoBody
         THEN [frames |-> IF line.sp = 0 THEN <<LineFrame(line, 2, idx)>> ELSE <<>>,
               process |-> FALSE]
         ELSE IF Loads(PayloadStr(line)).ok
              THEN [frames |-> <<LineFrame(ForwardData(line), 2, idx)>>, process |-> TRUE]
              ELSE [frames |-> OnJsonDecodeError(line, idx), process |-> FALSE]
    ELSE IF line.head = "field" THEN [frames |-> <<LineFrame(line, 2, idx)>>, process |-> FALSE]
    ELSE IF line.head = ":" THEN [frames |-> <<LineFrame(line, 2, idx)>>, process |-> FALSE]
    ELSE [frames |-> <<>>, process |-> FALSE]

\* What the loop body yields for a line before it touches the payload, and
\* whether the payload is then processed.
Dispatch(line, idx) ==
    IF StartsWithData(line)
    THEN IF PayloadStr(line) = NoBody
         THEN [frames |-> IF line.sp = 0 THEN <<LineFrame(line, 2, idx)>> ELSE <<>>,
               process |-> FALSE]
         ELSE IF Loads(PayloadStr(line)).ok
              THEN [frames |-> <<LineFrame(ForwardData(line), 2, idx)>>, process |-> TRUE]
              ELSE [frames |-> OnJsonDecodeError(line, idx), process |-> FALSE]
    ELSE IF line.head = "field" THEN [frames |-> <<LineFrame(line, 1, idx)>>, process |-> FALSE]
    ELSE IF line.head = ":" THEN [frames |-> <<LineFrame(line, 1, idx)>>, process |-> FALSE]
    ELSE [frames |-> <<>>, process |-> FALSE]

\* A mutation: the frames of a line overtake the frames yielded before it.
HandleLineOvertakes ==
    /\ pc = "line"
    /\ LET d == Dispatch(Current, Len(received))
       IN /\ forwarded' = d.frames \o forwarded
          /\ pc' = IF d.process THEN "apply" ELSE "read"
    /\ UNCHANGED <<handlerVars, profile, client, conn, received, acc, chat, db, dbFaults, failure,
                   calls, applied, committed>>

\* The loop body up to its yield (or to the end, for a line with no payload
\* to process).
HandleLine ==
    /\ pc = "line"
    /\ LET d == Dispatch(Current, Len(received))
       IN /\ forwarded' = forwarded \o d.frames
          /\ pc' = IF d.process THEN "apply" ELSE "read"
    /\ UNCHANGED <<handlerVars, profile, client, conn, received, acc, chat, db, dbFaults, failure,
                   calls, applied, committed>>

\* An exception reaches one of the outer except clauses of stream_response:
\* record it, yield the error frame; if it leaves the function the wrapper's
\* clause for its class does the same again.
StreamFails(e, db0, budget0) ==
    \E o1 \in DbOutcomes(db0, budget0) :
      LET h == OnStreamError(e, Len(received))
          chat1 == HandleStreamingError(chat, h.note, DbOk(o1))
          calls1 == Append(calls, Call(chat, h.note, DbOk(o1)))
      IN /\ IF h.raises
            THEN \E o2 \in DbOutcomes(DbAfter(o1), DbBudgetAfter(o1, budget0)) :
                   LET w == OnWrapperError(e, <<>>, Len(received))
                   IN /\ chat' = HandleStreamingError(chat1, w.note, DbOk(o2))
                      /\ calls' = Append(calls1, Call(chat1, w.note, DbOk(o2)))
                      /\ forwarded' = forwarded \o h.frames \o w.frames
                      /\ db' = DbAfter(o2)
                      /\ dbFaults' = DbBudgetAfter(o2, DbBudgetAfter(o1, budget0))
            ELSE /\ chat' = chat1
                 /\ calls' = calls1
                 /\ forwarded' = forwarded \o h.frames
                 /\ db' = DbAfter(o1)
                 /\ dbFaults' = DbBudgetAfter(o1, budget0)
         /\ failure' = e
         /\ pc' = "done"
         /\ conn' = "closed"
         /\ UNCHANGED <<handlerVars, profile, client, received, acc, applied, committed>>

\* The loop body after the yield: the payload is applied; an exception is
\* recorded, answered with an error frame, and the loop goes on.  (Were the
\* inner clause to let the exception pass, the outer clauses would end the
\* run.)
ProcessPayload ==
    /\ pc = "apply"
    /\ LET val == Loads(PayloadStr(Current)).val
       IN \E o1 \in (IF UsesDb(val) THEN DbOutcomes(db, dbFaults) ELSE {"ok"}) :
            LET r == Process(val, acc, chat, DbOk(o1))
                db1 == IF UsesDb(val) THEN DbAfter(o1) ELSE db
                budget1 == IF UsesDb(val) THEN DbBudgetAfter(o1, dbFaults) ELSE dbFaults
                h == OnProcessError(r.exc, Len(received))
            IN IF r.exc = NoExc
               THEN /\ acc' = r.acc
                    /\ chat' = r.chat
                    /\ applied' = IF r.wrote THEN Append(applied, val.md) ELSE applied
                    /\ db' = db1
                    /\ dbFaults' = budget1
                    /\ pc' = "read"
                    /\ UNCHANGED <<handlerVars, profile, client, conn, received, forwarded,
                                   failure, calls, committed>>
               ELSE IF h.raises
               THEN StreamFails(r.exc, db1, budget1)
               ELSE \E o2 \in DbOutcomes(db1, budget1) :
                      /\ chat' = HandleStreamingError(chat, h.note, DbOk(o2))
                      /\ calls' = Append(calls, Call(chat, h.note, DbOk(o2)))
                      /\ db' = DbAfter(o2)
                      /\ dbFaults' = DbBudgetAfter(o2, budget1)
                      /\ forwarded' = forwarded \o h.frames
                      /\ pc' = "read"
                      /\ UNCHANGED <<handlerVars, profile, client, conn, received, acc,
                                     failure, applied, committed>>

\* aiter_lines() is exhausted: the upstream closed the body normally.
StreamEnd ==
    /\ pc = "read"
    /\ pc' = "commit"
    /\ UNCHANGED <<handlerVars, profile, client, conn, received, forwarded, acc, chat, db, dbFaults,
                   failure, calls, applied, committed>>

\* aiter_lines() raises while the next line is awaited.
ReadFails ==
    /\ pc = "read"
    /\ \E e \in ReadErrors : StreamFails(e, db, dbFaults)

\* A mutation: the text is written without testing that there is any, and
\* without a database fault.
FinalCommitUnguarded ==
    /\ pc = "commit"
    /\ chat' = IF chat.exists THEN [chat EXCEPT !.response = acc] ELSE chat
    /\ committed' = IF chat.exists THEN Append(committed, acc) ELSE committed
    /\ pc' = "done"
    /\ conn' = "closed"
    /\ UNCHANGED <<handlerVars, profile, client, received, forwarded, acc, db, dbFaults,
                   failure, calls, applied>>

\* After the loop: the accumulated text, if any, replaces the response.
FinalCommit ==
    /\ pc = "commit"
    /\ IF acc = <<>>
       THEN /\ pc' = "done"
            /\ conn' = "closed"
            /\ UNCHANGED <<handlerVars, profile, client, received, forwarded, acc, chat, db, dbFaults,
                           failure, calls, applied, committed>>
       ELSE \E o \in DbOutcomes(db, dbFaults) :
              IF DbOk(o)
              THEN /\ chat' = IF chat.exists THEN [chat EXCEPT !.response = acc] ELSE chat
                   /\ committed' = IF chat.exists THEN Append(committed, acc) ELSE committed
                   /\ pc' = "done"
                   /\ conn' = "closed"
                   /\ UNCHANGED <<handlerVars, profile, client, received, forwarded, acc, db, dbFaults,
                                  failure, calls, applied>>
              ELSE StreamFails(DbError, DbAfter(o), DbBudgetAfter(o, dbFaults))

\* delete_session (src/api/v1/session.py) removes the session of the chat
\* while the run is in flight; the row goes with it.  The run touches the row
\* only in the steps that follow a read, so a deletion at any other moment
\* is the same as one while the next read is awaited; one that lands between
\* a step's query and its commit makes that commit raise (the UPDATE matches
\* no row), which is this deletion followed by a failing database operation.
DeleteSession ==
    /\ pc \in {"idle", "read"}
    /\ chat.exists
    /\ chat' = DeletedChat
    /\ UNCHANGED <<handlerVars, profile, client, pc, conn, received, forwarded, acc, db, dbFaults,
                   failure, calls, applied, committed>>

\* A mutation: the response is not inside an "async with" block, so a
\* cancelled run leaves it open.
ClientDisconnectOrphans ==
    /\ pc \in {"idle", "read", "apply"}
    /\ client' = "gone"
    /\ pc' = "done"
    /\ UNCHANGED <<handlerVars, profile, conn, received, forwarded, acc, chat, db, dbFaults,
                   failure, calls, applied, committed>>

\* The client goes away: the StreamingResponse that iterates the generator is
\* cancelled.  The generator is suspended where it awaits (client.stream, the
\* next line) or at the yield of a data line; CancelledError and GeneratorExit
\* are no Exception, so no except clause runs, the rest of the loop body and
\* the final commit are skipped, and only the "async with" blocks unwind.
ClientDisconnect ==
    /\ pc \in {"idle", "read", "apply"}
    /\ client' = "gone"
    /\ pc' = "done"
    /\ conn' = "closed"
    /\ UNCHANGED <<handlerVars, profile, received, forwarded, acc, chat, db, dbFaults,
                   failure, calls, applied, committed>>

Next ==
    \/ Connect
    \/ ConnectFails
    \/ StatusFails
    \/ ReadLine
    \/ HandleLine
    \/ ProcessPayload
    \/ StreamEnd
    \/ ReadFails
    \/ FinalCommit
    \/ DeleteSession
    \/ ClientDisconnect

Spec == Init /\ [][Next]_vars


(***************************************************************************)
(* The request handlers around the relay runs.  Several requests are       *)
(* followed at once; a relay run is followed here only by what it does to  *)
(* the chats table, its line-by-line behaviour being the subject of Spec.  *)
(***************************************************************************)
Handlers == {"create_chat", "continue_chat"}

\* chat_id = str(uuid.uuid4()): an identifier no earlier call returned.
\* Identifiers are numbered in the order they are drawn, so that the order
\* of the numbers is also the order of created_at.
NewIdReused(n) == 1

NewId(n) == n + 1

\* The rows of the user, and the one order_by(Chat.created_at.desc()).first()
\* returns (0 when there is none).
Rows == {id \in Ids : table[id].exists}
MostRecent ==
    IF Rows = {} THEN 0
    ELSE CHOOSE id \in Rows : \A other \in Rows : other <= id

InFlight(r) == runs[r].pc \in {"relay", "streaming"}

\* create_chat / continue_chat up to their return: draw the identifier,
\* db.add(Chat(...)), db.commit(), and hand the generator
\* stream_response_wrapper(url, payload, db, chat_id) to StreamingResponse.
\* A failing commit (the database, or a row that already has this id) is
\* answered with HTTP 500 and no generator exists.
StartChatNoCommit(r, h) ==
    LET id == NewId(issued) IN
    /\ runs[r].pc = "none"
    /\ r = issued + 1
    /\ issued' = issued + 1
    /\ runs' = [runs EXCEPT ![r] = [handler |-> h, pc |-> "relay",
                                    id |-> id, forwarded |-> FALSE]]
    /\ UNCHANGED <<table, relayVars>>

StartChat(r, h) ==
    LET id == NewId(issued) IN
    /\ runs[r].pc = "none"
    /\ r = issued + 1
    /\ issued' = issued + 1
    /\ \E committed_ok \in BOOLEAN :
          IF committed_ok /\ ~table[id].exists
          THEN /\ table' = [table EXCEPT ![id] = NewRow]
               /\ runs' = [runs EXCEPT ![r] = [handler |-> h, pc |-> "relay",
                                               id |-> id, forwarded |-> FALSE]]
          ELSE /\ table' = table
               /\ runs' = [runs EXCEPT ![r] = [handler |-> h, pc |-> "rejected",
                                               id |-> id, forwarded |-> FALSE]]
    /\ UNCHANGED relayVars

\* stream_response_wrapper: client.stream('POST', url, ...) answered with a
\* success status; stream_response starts.
OpenUpstream(r) ==
    /\ runs[r].pc = "relay"
    /\ runs' = [runs EXCEPT ![r].pc = "streaming"]
    /\ UNCHANGED <<table, issued, relayVars>>

\* One metadata event of run r: its frame is forwarded, then the row with
\* the run's chat_id is queried and, when found, written.
RelayEvent(r, hm) ==
    LET id == runs[r].id IN
    /\ runs[r].pc = "streaming"
    /\ runs' = [runs EXCEPT ![r].forwarded = TRUE]
    /\ table' = IF table[id].exists
                THEN [table EXCEPT ![id].current_params = "run",
                                   ![id].has_more = hm,
                                   ![id].writers = @ \cup {RunWriter(r)}]
                ELSE table
    /\ UNCHANGED <<issued, relayVars>>

\* The end of run r: the final commit of the text ("text"), a failure note
\* of handle_streaming_error ("note"), or neither (the client went away, or
\* no text arrived).  Only a run that streams has text.
RelayEnds(r, how) ==
    LET id == runs[r].id IN
    /\ InFlight(r)
    /\ how = "text" => runs[r].pc = "streaming"
    /\ runs' = [runs EXCEPT ![r].pc = "done"]
    /\ table' = IF how # "none" /\ table[id].exists
                THEN [table EXCEPT ![id].response = how,
                                   ![id].writers = @ \cup {RunWriter(r)}]
                ELSE table
    /\ UNCHANGED <<issued, relayVars>>

\* get_more_phones, its database update: the most recent chat of the user
\* gets the request's current_params and has_more.
GetMorePhones(hm) ==
    LET id == MostRecent IN
    /\ id # 0
    /\ table' = [table EXCEPT ![id].current_params = "more",
                               ![id].has_more = hm,
                               ![id].writers = @ \cup {MoreWriter}]
    /\ UNCHANGED <<runs, issued, relayVars>>

\* delete_session: the chats of a session go.
DeleteChats(id) ==
    /\ table[id].exists
    /\ table' = [table EXCEPT ![id] = NoRow]
    /\ UNCHANGED <<runs, issued, relayVars>>

InitHandlers ==
    /\ Init
    /\ profile = "text"

NextHandlers ==
    \/ \E r \in Runs, h \in Handlers : StartChat(r, h)
    \/ \E r \in Runs : OpenUpstream(r)
    \/ \E r \in Runs, hm \in BOOLEAN : RelayEvent(r, hm)
    \/ \E r \in Runs, how \in {"text", "note", "none"} : RelayEnds(r, how)
    \/ \E hm \in BOOLEAN : GetMorePhones(hm)
    \/ \E id \in Ids : DeleteChats(id)

SpecHandlers == InitHandlers /\ [][NextHandlers]_vars


(***************************************************************************)
(* Vocabulary of the properties                                            *)
(***************************************************************************)
\* The run is over, no exception ended it and the client stayed.
NormalEnd == pc = "done" /\ failure = NoExc /\ client = "connected"

\* Line i has been through the loop body up to its yield / to its end.
Dispatched(i) == i < Len(received) \/ pc # "line"
Processed(i) == i < Len(received) \/ pc \notin {"line", "apply"}

HasPayload(line) == StartsWithData(line) /\ PayloadStr(line) # NoBody
IsMalformed(line) == HasPayload(line) /\ line.body.val.shape = "invalid"
IsEvent(line, type) ==
    HasPayload(line) /\ line.body.val.shape = "object" /\ line.body.val.type = type
\* a content event with a non-empty string chunk
IsContent(line) ==
    IsEvent(line, "content") /\ line.body.val.textKind = "str" /\ line.body.val.text # <<>>
\* a done event with a non-empty full_text
IsDoneWithText(line) ==
    IsEvent(line, "done") /\ line.body.val.textKind = "str" /\ line.body.val.text # <<>>

\* The content chunks of the lines ls, concatenated in arrival order.
RECURSIVE ConcatChunks(_)
ConcatChunks(ls) ==
    IF ls = <<>> THEN <<>>
    ELSE ConcatChunks(SubSeq(ls, 1, Len(ls) - 1))
         \o (IF IsContent(ls[Len(ls)]) THEN ls[Len(ls)].body.val.text ELSE <<>>)

ContentSeen == \E i \in DOMAIN received : IsContent(received[i])
DoneTexts == {received[i].body.val.text : i \in {j \in DOMAIN received : IsDoneWithText(received[j])}}
FirstDoneText ==
    received[CHOOSE i \in DOMAIN received :
                /\ IsDoneWithText(received[i])
                /\ \A j \in 1..(i - 1) : ~IsDoneWithText(received[j])].body.val.text

IsPrefix(s, t) == Len(s) <= Len(t) /\ SubSeq(t, 1, Len(s)) = s

\* An error frame of a failure that ends the run (not the per-line ones).
IsTerminalFrame(f) ==
    /\ f.src = "err"
    /\ f.content[1] \notin {"Malformed data from upstream: ", "Error processing upstream data: "}
TerminalFrames == {i \in DOMAIN forwarded : IsTerminalFrame(forwarded[i])}

(***************************************************************************)
(* C1..C3: the committed text                                              *)
(***************************************************************************)
\* C1: in a run whose upstream closed normally and in which content chunks
\* arrived, the text the final commit writes is the concatenation of the
\* content chunks in arrival order.  (Violated: a done event with full_text
\* that precedes the first chunk is merged in front of the chunks.)
C1_CommittedIsConcatenation ==
    (NormalEnd /\ ContentSeen /\ committed # <<>>)
        => committed[Len(committed)] = ConcatChunks(received)

\* C2: when a content chunk was observed, no character of any done.full_text
\* is in the committed text, wherever the done event sits.  (Violated by a
\* done event before the first chunk.)
C2_FullTextNeverMerged ==
    (NormalEnd /\ ContentSeen /\ committed # <<>>)
        => \A i \in DOMAIN chat.response :
              \A t \in DoneTexts : ~IsSubstring(<<chat.response[i]>>, t)

\* C3: with no content chunk, a done event carrying full_text = T (the first
\* one, should several arrive) and a normal close, the committed text is T.
C3_FallbackToFullText ==
    (NormalEnd /\ ~ContentSeen /\ DoneTexts # {} /\ chat.exists)
        => /\ chat.response = FirstDoneText
           /\ committed = <<FirstDoneText>>

C3_Witness ==
    /\ NormalEnd /\ ~ContentSeen /\ chat.exists
    /\ DoneTexts = {<<"T">>}
    /\ chat.response = <<"T">>
    /\ committed = <<<<"T">>>>


(***************************************************************************)
(* C4: metadata                                                            *)
(***************************************************************************)
Max(S) == CHOOSE x \in S : \A y \in S : y <= x

\* The applied metadata events that carried field f, and the value of the
\* latest of them (the value of the new row when there is none).
Carriers(f) == {i \in DOMAIN applied : f \in applied[i].has}
LastCarried(f) == IF Carriers(f) = {} THEN NewChat[f] ELSE applied[Max(Carriers(f))][f]

\* C4 as stated: after any sequence of metadata events every structured
\* field, current_params included, holds exactly the value of the latest
\* event that carried it, and events that do not carry it leave it alone.
\* (Violated: an event carrying has_more also writes current_params.)
C4_PerFieldLastWriterWins ==
    chat.exists => \A f \in Fields : chat[f] = LastCarried(f)

\* C4 amended: phones, button_text, why_this_phone and has_more hold the
\* value of the latest event that carried them and are untouched by every
\* other event; so does current_params, except for its has_more entry, which
\* an event carrying has_more may overwrite.
C4_LastWriterWinsUpToHasMoreEntry ==
    chat.exists =>
        /\ \A f \in Fields \ {"current_params"} : chat[f] = LastCarried(f)
        /\ chat.current_params.k = LastCarried("current_params").k
        /\ (\A i \in Carriers("has_more") :
                Carriers("current_params") # {} /\ i < Max(Carriers("current_params")))
             => chat.current_params = LastCarried("current_params")

C4_Witness ==
    /\ chat.exists
    /\ Len(applied) = 3
    /\ Carriers("phones") = {1, 2}
    /\ applied[1].phones # applied[2].phones
    /\ chat.phones = applied[2].phones
    /\ chat.button_text = applied[3].button_text

(***************************************************************************)
(* C5: handle_streaming_error                                              *)
(***************************************************************************)
\* C5: a call that reaches the row never removes or alters the stored text,
\* appends its message exactly when the message is not yet a substring of
\* it, and leaves the message in it; a repeated call with the same message
\* appends nothing, and while every call carried that one message the text
\* holds it exactly once.
C5_FailureRecordingIdempotent ==
    \A j \in DOMAIN calls :
        LET c == calls[j]
            em == ErrorMessage(c.msg)
        IN c.reached =>
            /\ IsPrefix(c.before, c.after)
            /\ (c.after # c.before) <=> ~IsSubstring(em, c.before)
            /\ IsSubstring(em, c.after)
            /\ \A i \in 1..(j - 1) :
                  (calls[i].reached /\ calls[i].msg = c.msg) => c.after = c.before
            /\ (\A k \in 1..j : calls[k].msg = c.msg) => Occurrences(em, c.after) = 1

C5_Witness ==
    /\ Len(calls) = 3
    /\ \A j \in 1..3 : calls[j].reached
    /\ calls[1].msg = calls[2].msg
    /\ calls[2].after = calls[2].before
    /\ Occurrences(ErrorMessage(calls[2].msg), calls[2].after) = 1
    /\ calls[3].msg # calls[1].msg
    /\ calls[3].after = calls[3].before
    /\ chat.response = calls[1].after

(***************************************************************************)
(* C6..C8: forwarding                                                      *)
(***************************************************************************)
\* C6: every frame forwarded for an upstream data: line is that line as it
\* was received, followed by the blank-line terminator; never a
\* re-serialization of its parsed payload.
C6_DataFramesAreReceivedLines ==
    \A n \in DOMAIN forwarded :
        LET f == forwarded[n]
        IN (f.src = "up" /\ StartsWithData(f.line))
              => /\ f.idx \in DOMAIN received
                 /\ f.line = received[f.idx]
                 /\ f.term = 2

C6_Witness ==
    \E n \in DOMAIN forwarded :
        /\ forwarded[n].src = "up"
        /\ forwarded[n].line = ContentLine(0, "compact", <<"b">>)
        /\ forwarded[n].line # Dumps(Loads(PayloadStr(forwarded[n].line)).val)

\* C7: every received data: line with a non-empty payload is forwarded
\* as-is, a line whose payload is no valid JSON included.  (Violated: the
\* malformed line itself is never yielded, only the error frame.)
C7_NoDataLineDropped ==
    \A i \in DOMAIN received :
        (HasPayload(received[i]) /\ Dispatched(i))
            => \E n \in DOMAIN forwarded : forwarded[n] = LineFrame(received[i], 2, i)

\* What C8 says of a state: a malformed line has exactly one error frame,
\* every later line with something to forward is forwarded, and the text
\* committed at a normal end includes all content chunks.
C8_State ==
    /\ \A i \in DOMAIN received :
          (IsMalformed(received[i]) /\ Dispatched(i)) =>
              /\ Cardinality({n \in DOMAIN forwarded :
                                 /\ forwarded[n].idx = i
                                 /\ forwarded[n].src = "err"
                                 /\ ~IsTerminalFrame(forwarded[n])}) = 1
              /\ \A j \in (i + 1)..Len(received) :
                    ( /\ Dispatched(j)
                      /\ \/ HasPayload(received[j]) /\ ~IsMalformed(received[j])
                         \/ received[j].head \in {":", "field"} )
                    => \E n \in DOMAIN forwarded :
                          /\ forwarded[n].src = "up"
                          /\ forwarded[n].idx = j
                          /\ forwarded[n].line = received[j]
    /\ (NormalEnd /\ chat.exists /\ ContentSeen /\ \E i \in DOMAIN received : IsMalformed(received[i]))
          => IsSubstring(ConcatChunks(received), chat.response)

\* C8: a data: line with invalid JSON does not abort the run: it gets one
\* error frame, records no failure, leaves the accumulated text alone and
\* the loop goes back to reading; later frames are forwarded and the text
\* committed at the normal end includes the chunks before and after it.
C8_MalformedLineDoesNotAbort ==
    /\ []C8_State
    /\ [][(pc = "line" /\ IsMalformed(Current) /\ pc' # pc)
            => (pc' = "read" /\ failure' = NoExc /\ acc' = acc /\ calls' = calls
                /\ chat' = chat)]_vars

C8_Witness ==
    /\ NormalEnd /\ chat.exists
    /\ Len(received) = 3
    /\ IsContent(received[1]) /\ IsMalformed(received[2]) /\ IsContent(received[3])
    /\ chat.response = received[1].body.val.text \o received[3].body.val.text
    /\ Len(forwarded) = 3 /\ forwarded[2].src = "err"

(***************************************************************************)
(* C9, C10: terminal failures                                              *)
(***************************************************************************)
\* C9: the client gets no terminal error frame while the run goes on or
\* when it ends normally, where every frame belongs to an upstream line; a
\* run ended by a failure delivered exactly one, as its last frame.
C9_OneTerminalErrorFrame ==
    /\ Cardinality(TerminalFrames) = IF failure = NoExc THEN 0 ELSE 1
    /\ failure # NoExc => (forwarded # <<>> /\ IsTerminalFrame(forwarded[Len(forwarded)]))
    /\ failure = NoExc => \A n \in DOMAIN forwarded : forwarded[n].idx \in DOMAIN received

C9_Witness ==
    /\ pc = "done" /\ failure.cls = "ReadError"
    /\ Len(forwarded) = 3
    /\ forwarded[1].src = "up"
    /\ forwarded[2].src = "err" /\ ~IsTerminalFrame(forwarded[2])
    /\ TerminalFrames = {3}

\* C10: when the upstream times out before any line was received, no
\* upstream frame is forwarded, the client gets exactly one error frame,
\* handle_streaming_error is called once, and if it reaches the row the row
\* holds its note exactly once.
C10_TimeoutBeforeFirstByte ==
    (pc = "done" /\ IsTimeout(failure) /\ received = <<>>) =>
        /\ Len(forwarded) = 1
        /\ forwarded[1].src = "err"
        /\ Len(calls) = 1
        /\ calls[1].reached =>
              /\ chat.response = ErrorMessage(calls[1].msg)
              /\ Occurrences(ErrorMessage(calls[1].msg), chat.response) = 1

C10_Witness ==
    /\ pc = "done" /\ failure.cls = "ConnectTimeout"
    /\ received = <<>>
    /\ Len(forwarded) = 1 /\ IsTerminalFrame(forwarded[1])
    /\ Len(calls) = 1 /\ calls[1].reached
    /\ chat.response = ErrorMessage(failure.msg)

(***************************************************************************)
(* C11: a non-2xx answer                                                   *)
(***************************************************************************)
\* C11: when raise_for_status() refused the response, no upstream line was
\* read or forwarded, no metadata and no text was written (the row keeps the
\* columns it was created with), the client got exactly one error frame,
\* handle_streaming_error was called once, and if it reached the row the row
\* holds its note exactly once.
C11_StatusErrorSkipsLoop ==
    (pc = "done" /\ failure.cls = "HTTPStatusError") =>
        /\ received = <<>> /\ acc = <<>>
        /\ applied = <<>> /\ committed = <<>>
        /\ Len(forwarded) = 1 /\ IsTerminalFrame(forwarded[1])
        /\ Len(calls) = 1
        /\ chat.exists => \A f \in Fields : chat[f] = NewChat[f]
        /\ calls[1].reached =>
              /\ chat.response = ErrorMessage(calls[1].msg)
              /\ Occurrences(ErrorMessage(calls[1].msg), chat.response) = 1
        /\ (chat.exists /\ ~calls[1].reached) => chat.response = <<>>

C11_Witness ==
    /\ pc = "done" /\ failure.cls = "HTTPStatusError"
    /\ received = <<>> /\ Len(forwarded) = 1
    /\ forwarded[1].content = <<"External service error: 503", " - text">>
    /\ Len(calls) = 1 /\ calls[1].reached
    /\ chat.response = ErrorMessage(<<"503 for url">>)

(***************************************************************************)
(* C12: the client disconnects                                             *)
(***************************************************************************)
\* The row carries a failure note: some call of handle_streaming_error
\* reached it.
HasFailureNote == \E j \in DOMAIN calls : calls[j].reached

\* C12: a run the client left after upstream lines had arrived has stopped
\* reading (the connection is closed) and its row, when it is there and the
\* Session never failed, ends with a committed text or a failure note.
\* (Violated: nothing is written when the generator is cancelled.)
C12_DisconnectReachesTerminalRecord ==
    (pc = "done" /\ client = "gone" /\ received # <<>>
        /\ chat.exists /\ dbFaults = MaxDbFaults)
        => /\ conn = "closed"
           /\ committed # <<>> \/ HasFailureNote

(***************************************************************************)
(* C13: persistence faults and the client                                  *)
(***************************************************************************)
\* C13: no frame the client receives is there because a database write of
\* the relay failed: no error frame reports the Session's exception.
\* (Violated: a failed metadata commit and a failed final commit are each
\* answered with an error frame.)
C13_PersistenceFaultNotSurfaced ==
    \A n \in DOMAIN forwarded :
        forwarded[n].src = "err" => ~IsSubstring(DbError.msg, forwarded[n].content)

(***************************************************************************)
(* C14: the status of the record                                           *)
(***************************************************************************)
\* C14: the row records that the run left the pending state: once a frame
\* has been forwarded, and once the run is over, the row is no longer the
\* row as it was created.  (Violated: no column holds a status; a run that
\* writes no metadata and no text leaves the row exactly as created.)
C14_StatusLeavesPending ==
    (chat.exists /\ dbFaults = MaxDbFaults /\ client = "connected") =>
        /\ forwarded # <<>> => chat # NewChat
        /\ pc = "done" => chat # NewChat

(***************************************************************************)
(* C15, C16: exceptions while a parsed payload is processed                *)
(***************************************************************************)
\* The error frame of the inner "except Exception" clause.
IsProcessErrorFrame(f) ==
    f.src = "err" /\ f.content[1] = "Error processing upstream data: "

\* C15: the error frame that answers an exception raised while a parsed
\* payload is processed ends the run: it is the last frame and no upstream
\* line is received after the line that raised; stated for runs without a
\* database fault.  (Violated: the loop goes on reading and forwarding.)
C15_ProcessingErrorIsTerminal ==
    dbFaults = MaxDbFaults =>
        \A n \in DOMAIN forwarded :
            IsProcessErrorFrame(forwarded[n])
                => /\ n = Len(forwarded)
                   /\ Len(received) = forwarded[n].idx

\* A payload that is valid JSON but no content, done or metadata event with
\* an object for its metadata.
IsUnknownShape(line) ==
    /\ HasPayload(line) /\ ~IsMalformed(line)
    /\ \/ line.body.val.shape # "object"
       \/ line.body.val.type \notin {"content", "done", "metadata"}
       \/ line.body.val.type = "metadata" /\ line.body.val.md.shape \notin {"object", "absent"}

\* C16: a data: line whose payload is valid JSON of an unexpected shape is
\* forwarded and nothing else happens for it: no error frame answers it and
\* handle_streaming_error is not called.  (Violated: a payload that is no
\* object, and a metadata value that is no object, raise in the processing
\* code.)
C16_ClassificationNeverFails ==
    (dbFaults = MaxDbFaults /\ client = "connected" /\ failure = NoExc) =>
        /\ \A i \in DOMAIN received :
              (IsUnknownShape(received[i]) /\ Processed(i)) =>
                  /\ \E n \in DOMAIN forwarded : forwarded[n] = LineFrame(received[i], 2, i)
                  /\ \A n \in DOMAIN forwarded :
                        forwarded[n].idx = i => forwarded[n].src = "up"
        /\ (\A i \in DOMAIN received : IsUnknownShape(received[i])) => calls = <<>>

(***************************************************************************)
(* C17: order of the forwarded frames                                      *)
(***************************************************************************)
\* A line the loop forwards as it is: a data line whose payload parses, the
\* bare "data:", a field line, a comment.
ForwardedAsIs(line) ==
    \/ HasPayload(line) /\ ~IsMalformed(line)
    \/ line = EmptyDataLine
    \/ line.head \in {":", "field"}

IsUpstreamFrame(f) == f.src = "up"
LinesOf(frames) == [n \in DOMAIN frames |-> frames[n].line]
\* The received lines that have been through the loop body's yield.
DispatchedLines ==
    SubSeq(received, 1, IF pc = "line" THEN Len(received) - 1 ELSE Len(received))

\* C17: the upstream frames the client got are, in this order and without
\* repetition, the forwarded lines in the order they were received; every
\* frame, error frames included, comes after the frames of all lines
\* received before it and before those of all lines received after it, and
\* the error frame answering a line comes after that line's own frame.
C17_ForwardedInReceptionOrder ==
    /\ LinesOf(SelectSeq(forwarded, IsUpstreamFrame)) = SelectSeq(DispatchedLines, ForwardedAsIs)
    /\ \A m, n \in DOMAIN forwarded :
          m < n => /\ forwarded[m].idx <= forwarded[n].idx
                   /\ forwarded[m].idx = forwarded[n].idx
                         => ~(forwarded[m].src = "err" /\ forwarded[n].src = "up")

C17_Witness ==
    /\ pc = "done" /\ Len(received) = 3 /\ Len(forwarded) = 4
    /\ forwarded[1].src = "up" /\ forwarded[2].src = "up"
    /\ forwarded[1].line # forwarded[2].line
    /\ IsProcessErrorFrame(forwarded[3]) /\ forwarded[3].idx = 2
    /\ forwarded[4].src = "up" /\ forwarded[4].line = received[3]

(***************************************************************************)
(* C18: mutation and forwarding                                            *)
(***************************************************************************)
IsMetadataObject(line) ==
    IsEvent(line, "metadata") /\ line.body.val.md.shape = "object"
      /\ MetaTruthy(line.body.val.md)

\* The metadata objects of the lines ls, in arrival order.
RECURSIVE MetadataOf(_)
MetadataOf(ls) ==
    IF ls = <<>> THEN <<>>
    ELSE MetadataOf(SubSeq(ls, 1, Len(ls) - 1))
         \o (IF IsMetadataObject(ls[Len(ls)]) THEN <<ls[Len(ls)].body.val.md>> ELSE <<>>)

\* C18: when the frame of a content event has been forwarded its chunk is in
\* the accumulator, and when the frame of a metadata event has been
\* forwarded its write is on the row; stated for a row that exists and a
\* Session that never failed.  (Violated: the frame is yielded first.)
C18_SinkBeforeForward ==
    (chat.exists /\ dbFaults = MaxDbFaults) =>
        \A n \in DOMAIN forwarded :
            LET f == forwarded[n]
            IN /\ (f.src = "up" /\ IsContent(f.line))
                    => IsSubstring(ConcatChunks(SubSeq(received, 1, f.idx)), acc)
               /\ (f.src = "up" /\ IsMetadataObject(f.line))
                    => IsPrefix(MetadataOf(SubSeq(received, 1, f.idx)), applied)

IsDbFaultFrame(f) == IsProcessErrorFrame(f) /\ IsSubstring(DbError.msg, f.content)
\* The lines whose metadata write met a database fault.
FaultedLines == {forwarded[n].idx : n \in {m \in DOMAIN forwarded : IsDbFaultFrame(forwarded[m])}}

\* What C20 says of a state: every line received after a metadata event
\* whose write failed is forwarded if it is a line the loop forwards, and a
\* run that then ends normally has committed its accumulated text, which
\* holds the chunks received before and after the fault.
C20_State ==
    /\ \A i \in FaultedLines :
          /\ IsEvent(received[i], "metadata")
          /\ \A j \in (i + 1)..Len(received) :
                (Dispatched(j) /\ ForwardedAsIs(received[j]))
                    => \E n \in DOMAIN forwarded :
                          /\ forwarded[n].src = "up"
                          /\ forwarded[n].idx = j
                          /\ forwarded[n].line = received[j]
    /\ (FaultedLines # {} /\ NormalEnd /\ chat.exists /\ ContentSeen)
          => /\ committed = <<acc>>
             /\ IsSubstring(ConcatChunks(received), acc)
    /\ (FaultedLines # {} /\ pc = "done" /\ failure = DbError) => acc # <<>>

\* C20: a database fault while a metadata event is applied does not end the
\* run: the step that meets it goes back to reading with the accumulator,
\* the connection and the failure state as they were; later lines are
\* forwarded, later chunks accumulated, and the final commit is attempted (a
\* run ended by a database error ended in that attempt, with text to write).
C20_PersistenceFaultDoesNotTerminate ==
    /\ []C20_State
    /\ [][(pc = "apply" /\ UsesDb(Loads(PayloadStr(Current)).val)
             /\ client' = "connected"
             /\ (dbFaults' < dbFaults \/ db = "broken"))
            => (pc' = "read" /\ failure' = NoExc /\ conn' = "open" /\ acc' = acc
                /\ received' = received)]_vars

C20_Witness ==
    /\ NormalEnd /\ chat.exists
    /\ Len(received) = 3 /\ FaultedLines = {1}
    /\ IsContent(received[2]) /\ IsEvent(received[3], "metadata")
    /\ Len(applied) = 1
    /\ Len(forwarded) = 4 /\ forwarded[3] = LineFrame(received[2], 2, 2)
    /\ committed = <<received[2].body.val.text>>

(***************************************************************************)
(* C21: the row is gone                                                    *)
(***************************************************************************)
\* The frames a run delivers for the lines ls when its row exists and the
\* Session works: per line, what the loop yields for it and, if processing
\* its payload raises, the error frame that answers.
RECURSIVE FramesIfRecordExists(_)
FramesIfRecordExists(ls) ==
    IF ls = <<>> THEN <<>>
    ELSE LET i == Len(ls)
             d == Dispatch(ls[i], i)
             r == Process(Loads(PayloadStr(ls[i])).val, <<>>, NewChat, TRUE)
         IN FramesIfRecordExists(SubSeq(ls, 1, i - 1))
            \o d.frames
            \o (IF d.process /\ r.exc # NoExc THEN OnProcessError(r.exc, i).frames ELSE <<>>)

\* C21: with the row gone and the Session working, no write step raises or
\* creates a row (the row stays absent, no text is committed), and between
\* lines the client has exactly the frames it would have with the row in
\* place.  (Violated: a metadata value
\* that is no object raises only when the row is there, C16, so the error
\* frame is missing.)
C21_VanishedRecordIsSilent ==
    (~chat.exists /\ dbFaults = MaxDbFaults /\ client = "connected"
        /\ failure = NoExc /\ pc \in {"read", "commit", "done"})
        => /\ chat = DeletedChat
           /\ committed = <<>>
           /\ forwarded = FramesIfRecordExists(received)

(***************************************************************************)
(* C24, C25: the upstream connection                                       *)
(***************************************************************************)
\* C24: the upstream request is sent at most once: a run never goes back to
\* connecting, a connection once open or closed is never opened again, a
\* failure ends the run, and a run that is over reads no line and forwards
\* no frame.
C24_UpstreamOpenedAtMostOnce ==
    /\ [](failure # NoExc => pc = "done")
    /\ [][/\ pc # "idle" => pc' # "idle"
          /\ conn # "none" => conn' # "none"
          /\ conn' = "open" => conn \in {"none", "open"}
          /\ conn = "none" => pc = "idle"
          /\ pc = "done" => (received' = received /\ forwarded' = forwarded)]_vars

C24_Witness ==
    /\ pc = "done" /\ failure.cls = "ReadError" /\ client = "connected"
    /\ conn = "closed"
    /\ Len(received) = 2 /\ Len(received) < MaxLines

\* C25: a run that is over has no open upstream connection, whichever way
\* it ended; the connection is open only while the run is in its loop or at
\* its final commit.
C25_ConnectionClosedOnExit ==
    /\ pc = "done" => conn = "closed"
    /\ conn = "open" => pc \in {"read", "line", "apply", "commit"}

C25_Witness ==
    /\ pc = "done" /\ client = "gone" /\ conn = "closed"
    /\ Len(received) = 2 /\ Len(forwarded) = 2
    /\ failure = NoExc

(***************************************************************************)
(* C27: terminators                                                        *)
(***************************************************************************)
\* C27: a forwarded data: line and an error frame end with two newlines, a
\* forwarded comment or field line with one; nothing else is forwarded, and
\* a blank upstream line gets no frame of its own.
C27_TerminatorFraming ==
    /\ \A n \in DOMAIN forwarded :
          LET f == forwarded[n]
          IN /\ f.src = "err" => f.term = 2
             /\ (f.src = "up" /\ StartsWithData(f.line)) => f.term = 2
             /\ (f.src = "up" /\ ~StartsWithData(f.line))
                   => (f.term = 1 /\ f.line.head \in {":", "field"})
    /\ \A i \in DOMAIN received :
          (received[i] = BlankLine /\ Dispatched(i))
              => ~\E n \in DOMAIN forwarded :
                      forwarded[n].idx = i /\ ~IsTerminalFrame(forwarded[n])

C27_Witness ==
    /\ pc = "done"
    /\ received = <<FieldLine, BlankLine, MalformedLine>>
    /\ Len(forwarded) = 2
    /\ forwarded[1] = LineFrame(FieldLine, 1, 1)
    /\ forwarded[2].src = "err" /\ forwarded[2].term = 2 /\ forwarded[2].idx = 3

(***************************************************************************)
(* C28: input that is not recognized                                       *)
(***************************************************************************)
\* A parsed event that carries nothing to store: a type other than
\* metadata, content and done; a content chunk that is empty or no string; a
\* metadata object with no key of the allow-list.
IsNoOpEvent(line) ==
    /\ HasPayload(line) /\ line.body.val.shape = "object"
    /\ \/ line.body.val.type \notin {"metadata", "content", "done"}
       \/ line.body.val.type = "content" /\ ~IsContent(line)
       \/ /\ line.body.val.type = "metadata"
          /\ line.body.val.md.shape \in {"object", "absent"}
          /\ line.body.val.md.has = {}

\* A metadata object with a key outside the allow-list besides keys of it.
HasExtraKey(line) ==
    IsMetadataObject(line) /\ line.body.val.md.extra /\ line.body.val.md.has # {}

\* What C28 says of a state: such a line is forwarded and no error frame
\* answers it.
C28_State ==
    dbFaults = MaxDbFaults =>
        \A i \in DOMAIN received :
            ((IsNoOpEvent(received[i]) \/ HasExtraKey(received[i])) /\ Processed(i))
                => /\ \E n \in DOMAIN forwarded : forwarded[n] = LineFrame(received[i], 2, i)
                   /\ \A n \in DOMAIN forwarded :
                         forwarded[n].idx = i => (forwarded[n].src = "up" \/ IsTerminalFrame(forwarded[n]))

\* C28: the steps of the loop body for an event that carries nothing to
\* store leave the row, the accumulator and the failure notes as they were,
\* and for a metadata object with an unknown key beside known ones only the
\* known keys' fields change; stated for steps without a database fault.
C28_UnrecognizedInputChangesNothing ==
    /\ []C28_State
    /\ [][(pc \in {"line", "apply"} /\ client' = "connected"
             /\ db = "ok" /\ dbFaults' = dbFaults)
            => /\ IsNoOpEvent(Current)
                    => (chat' = chat /\ acc' = acc /\ calls' = calls /\ committed' = committed)
               /\ HasExtraKey(Current)
                    => /\ acc' = acc /\ calls' = calls /\ chat'.response = chat.response
                       /\ \A f \in Fields \ Current.body.val.md.has :
                             (f = "current_params" /\ "has_more" \in Current.body.val.md.has)
                               \/ chat'[f] = chat[f]]_vars

C28_Witness ==
    /\ NormalEnd /\ chat.exists /\ dbFaults = MaxDbFaults
    /\ received = <<MetaLine(Meta({"phones"}, "A", EmptyParams, "-", "-", "-", FALSE)),
                    MetaLine(Meta({}, "-", EmptyParams, "-", "-", "-", TRUE)),
                    MetaLine(MetaEmpty)>>
    /\ Len(forwarded) = 3
    /\ chat = [NewChat EXCEPT !.phones = "A"]

(***************************************************************************)
(* C29: content and a failed run                                           *)
(***************************************************************************)
\* The text handle_streaming_error stores for message msg over text before.
WithNote(before, msg) ==
    (IF before # <<>> /\ ~EndsWithNewline(before) THEN before \o <<"NL", "NL">> ELSE before)
        \o ErrorMessage(msg)

\* C29: a run that a read timeout or transport error ended after content
\* chunks had arrived performed no final commit; its row holds no chunk, and
\* its response is the text stored before the failure, with the failure
\* note after it when the note was written.
C29_ContentOnlyAtFinalCommit ==
    (pc = "done" /\ failure \in ReadErrors /\ ContentSeen /\ chat.exists) =>
        LET c == calls[Len(calls)]
        IN /\ committed = <<>>
           /\ \A i \in DOMAIN received :
                 IsContent(received[i]) => ~IsSubstring(received[i].body.val.text, chat.response)
           /\ chat.response \in {c.before, WithNote(c.before, c.msg)}
           /\ c.reached => IsSubstring(ErrorMessage(c.msg), chat.response)

C29_Witness ==
    /\ pc = "done" /\ failure.cls = "ReadTimeout" /\ chat.exists
    /\ Len(received) = 2 /\ IsContent(received[1]) /\ IsContent(received[2])
    /\ Len(forwarded) = 3 /\ acc = ConcatChunks(received)
    /\ Len(calls) = 1 /\ calls[1].reached
    /\ chat.response = ErrorMessage(calls[1].msg)

(***************************************************************************)
(* C30: has_more in the column and in current_params                       *)
(***************************************************************************)
\* C30: when the latest metadata event applied carried has_more = v, the
\* has_more column and the has_more entry of current_params both hold v.
\* (Violated: with a non-empty current_params that the event does not
\* replace, the entry is set on the loaded dict only and never written.)
C30_HasMoreInColumnAndParams ==
    (chat.exists /\ applied # <<>> /\ "has_more" \in applied[Len(applied)].has) =>
        /\ chat.has_more = applied[Len(applied)].has_more
        /\ chat.current_params.has_more = applied[Len(applied)].has_more

(***************************************************************************)
(* Properties of the request handlers (SpecHandlers)                       *)
(***************************************************************************)
\* The records run r has written.
WrittenBy(r) == {id \in Ids : RunWriter(r) \in table[id].writers}

\* The requests that drew an identifier.
Started == {r \in Runs : runs[r].pc # "none"}

\* C22: while the relay run of a record is in flight, the record is written
\* only by that run; no other request handler, get_more_phones in
\* particular, writes a field of it between the start and the end of the run.
C22_OnlyTheRunWritesItsRecord ==
    \A r \in Runs :
        InFlight(r) /\ table[runs[r].id].exists
            => table[runs[r].id].writers \subseteq {RunWriter(r)}

\* C23: no two relay runs write the same record: every request to
\* create_chat or continue_chat draws an identifier no other request has,
\* and its run writes the record of that identifier only, so the sets of
\* records written by different runs are disjoint.
C23_RunsWriteDisjointRecords ==
    /\ \A r1, r2 \in Started : r1 # r2 => runs[r1].id # runs[r2].id
    /\ \A r \in Runs : WrittenBy(r) \subseteq {runs[r].id}
    /\ \A r1, r2 \in Runs : r1 # r2 => WrittenBy(r1) \cap WrittenBy(r2) = {}

C23_Witness ==
    \E r1, r2 \in Runs :
        /\ r1 # r2
        /\ runs[r1].handler = "create_chat" /\ runs[r2].handler = "continue_chat"
        /\ InFlight(r1) /\ InFlight(r2)
        /\ WrittenBy(r1) = {runs[r1].id}
        /\ WrittenBy(r2) = {runs[r2].id}

\* C26: the record of a run is created and committed, with empty response
\* and default structured fields, before the relay opens the upstream
\* connection and before any frame is forwarded, for create_chat and for
\* continue_chat: the step that starts a request either rejects it or leaves
\* the new default row in the table with the upstream not yet opened, the
\* upstream is opened only from there, and frames are forwarded only after.
C26_State ==
    \A r \in Runs : runs[r].forwarded => runs[r].pc \in {"streaming", "done"}

C26_RecordCommittedBeforeUpstream ==
    /\ [](C26_State)
    /\ [][\A r \in Runs :
            /\ (runs[r].pc = "none" /\ runs'[r].pc # "none")
                   => \/ runs'[r].pc = "rejected"
                      \/ /\ runs'[r].pc = "relay"
                         /\ ~table[runs'[r].id].exists
                         /\ table'[runs'[r].id] = NewRow
            /\ (runs[r].pc # "streaming" /\ runs'[r].pc = "streaming")
                   => runs[r].pc = "relay"]_vars

C26_Witness ==
    \E r1, r2 \in Runs :
        /\ runs[r1].handler = "create_chat" /\ runs[r2].handler = "continue_chat"
        /\ runs[r1].forwarded /\ runs[r2].forwarded
        /\ table[runs[r1].id].exists /\ table[runs[r2].id].exists

====
